---- MODULE Spec2Model ----
(***************************************************************************)
(* miniDiscordGateway: a FastAPI service in front of one discord.py        *)
(* gateway connection.                                                     *)
(*                                                                         *)
(*   app/discord_client.py  DiscordClientManager (get_client, start, close)*)
(*   app/main.py            module import, lifespan, request handlers      *)
(*   app/services.py        get_guild_users                                *)
(*                                                                         *)
(* Everything runs on one asyncio event loop, so a step of the model is    *)
(* the code between two suspension points (await) of one coroutine.        *)
(* discord.Client is an external library; the model keeps of a handle what *)
(* the repository's code reads of it: is_closed(), is_ready(), the         *)
(* registered on_ready coroutine and the guild cache behind get_guild().   *)
(***************************************************************************)
EXTENDS Integers, Sequences, FiniteSets, Bags, TLC

\* ------------------------------------------------------------- bounds
MaxHandles == 2          \* discord.Client objects constructed in one run
MaxMembers == 2          \* members one enumeration yields at most
MaxReq == 2              \* requests in flight at the same time

\* ---------------------------------------------------------- constants
None == 0                \* Python's None for an Optional[discord.Client]
Timeout == 10            \* asyncio.wait_for(..., timeout=10.0)

Handles == 1..MaxHandles
GuildIds == {-1, 0, 1, 2}    \* path parameter guild_id: int
BotGuilds == {1}             \* guilds the gateway session caches on READY

VARIABLES
    instance,        \* DiscordClientManager._instance (None or a handle)
    nHandles,        \* discord.Client objects constructed so far
    hClosed,         \* handle -> Client.is_closed()
    hReady,          \* handle -> Client.is_ready()
    hOnReady,        \* handle -> the coroutine registered as on_ready
    hGuilds,         \* handle -> ids of the guilds in its cache
    hUser,           \* handle -> Client.user is set (the bot has logged in)
    hDispatched,     \* handle -> an on_ready call is scheduled on the loop
    libClose,        \* handle -> Client.close() calls made by the manager
    client,          \* main.py: module global client
    client_ready,    \* main.py: asyncio.Event client_ready (is_set())
    tokenValid,      \* whether DISCORD_TOKEN is accepted by the platform
    pc,              \* position of main.py's import and lifespan
    clock,           \* time units spent in wait_for
    discord_task,    \* state of the task created in lifespan
    taskHandle,      \* handle the task's start() runs (None before)
    cancelReq,       \* discord_task.cancel() was requested and is pending
    extPc,           \* another caller of DiscordClientManager: idle/closing
    lastCall,        \* manager call made by the step just taken
    reqs,            \* bag of the invocations of the member-list endpoint in flight
    resp             \* the response made by the step just taken

vars == <<instance, nHandles, hClosed, hReady, hOnReady, hGuilds, hUser, hDispatched,
          libClose, client, client_ready, tokenValid, pc, clock, discord_task,
          taskHandle, cancelReq, extPc, lastCall, reqs, resp>>

handleVars == <<hClosed, hReady, hOnReady, hGuilds, hUser, hDispatched, libClose>>
managerVars == <<instance, nHandles>>
taskVars == <<discord_task, taskHandle, cancelReq>>

NoCall == [op |-> "none", ret |-> None]
Call(o, r) == [op |-> o, ret |-> r]

EmptyMap == [k \in {} |-> 0]
NoBody == [guild_id |-> 0, total_members |-> 0, users |-> EmptyMap]

\* No response: the value of resp after a step that answers no request.
\* closedAtEnd records whether the handle was closed when the response was made.
NoResp ==
    [endpoint |-> "none", status |-> 0, detail |-> "", g |-> 0, connReady |-> FALSE,
     connCached |-> FALSE, readyRead |-> FALSE, lookups |-> 0, fetches |-> 0,
     exc |-> "none", size |-> 0, enumerated |-> 0, closedAtEnd |-> FALSE,
     body |-> NoBody]

\* =====================================================================
\* app/discord_client.py: DiscordClientManager
\* =====================================================================

\* discord.Client(intents=intents) followed by @cls._instance.event on_ready:
\* a fresh handle, open, not ready, whose on_ready only logs.
NewClient(onr, h) == [onr EXCEPT ![h] = "log"]

\* A caller that forgets the `is None` test constructs a client on every call.
get_client_AlwaysNew(inst, n, onr) ==
    IF n < MaxHandles
    THEN [instance |-> n + 1, nHandles |-> n + 1, hOnReady |-> NewClient(onr, n + 1)]
    ELSE [instance |-> inst, nHandles |-> n, hOnReady |-> onr]

\* A manager that replaces a handle it finds closed.
get_client_ReplaceClosed(inst, n, onr) ==
    IF (inst = None \/ hClosed[inst]) /\ n < MaxHandles
    THEN [instance |-> n + 1, nHandles |-> n + 1, hOnReady |-> NewClient(onr, n + 1)]
    ELSE [instance |-> inst, nHandles |-> n, hOnReady |-> onr]

\* get_client: the manager's state after the call; the value returned is
\* the new _instance.
get_client(inst, n, onr) ==
    IF inst = None
    THEN [instance |-> n + 1, nHandles |-> n + 1, hOnReady |-> NewClient(onr, n + 1)]
    ELSE [instance |-> inst, nHandles |-> n, hOnReady |-> onr]

\* The model constructs at most MaxHandles clients.
CanGetClient == instance # None \/ nHandles < MaxHandles

\* A close() that tests only `cls._instance`.
CloseGuard_NoClosedCheck == instance # None

\* close(): `if cls._instance and cls._instance.is_closed() is False`
CloseGuard == instance # None /\ hClosed[instance] = FALSE

\* discord.Client.close() on handle h: the handle is closed from the call on
\* and its ready event is cleared; the session ends while the caller waits.
ClientClose(h) ==
    /\ hClosed' = [hClosed EXCEPT ![h] = TRUE]
    /\ hReady' = [hReady EXCEPT ![h] = FALSE]

\* close() up to its await: TRUE in `awaits` when the caller suspends in
\* `await cls._instance.close()`, FALSE when close() returns at once.
CloseCall(awaits) ==
    IF CloseGuard
    THEN /\ ClientClose(instance)
         /\ libClose' = [libClose EXCEPT ![instance] = @ + 1]
         /\ awaits = TRUE
    ELSE /\ UNCHANGED <<hClosed, hReady, libClose>>
         /\ awaits = FALSE

\* close() after its await: `cls._instance = None`
CloseResume == instance' = None

\* =====================================================================
\* app/main.py: module import and lifespan
\* =====================================================================

\* discord_task.cancel(): a request to cancel, unless the task is over.
TaskOver == discord_task \in {"none", "done", "cancelled"}
Cancel == cancelReq' = IF TaskOver THEN cancelReq ELSE TRUE

\* Lines 33-42: client = get_client(DISCORD_TOKEN), client_ready = Event(),
\* and @client.event on_ready, which replaces the handle's on_ready.
ModuleImport ==
    /\ pc = "import"
    /\ CanGetClient
    /\ LET r == get_client(instance, nHandles, hOnReady) IN
        /\ instance' = r.instance
        /\ nHandles' = r.nHandles
        /\ client' = r.instance
        /\ hOnReady' = [r.hOnReady EXCEPT ![r.instance] = "main"]
        /\ lastCall' = Call("get_client", r.instance)
    /\ client_ready' = FALSE
    /\ pc' = "startup"
    /\ resp' = NoResp
    /\ UNCHANGED <<hClosed, hReady, hGuilds, hUser, hDispatched, libClose, tokenValid,
                   clock, taskVars, extPc, reqs>>

\* Lines 52-60: asyncio.create_task(run_discord_client())
LifespanEnter ==
    /\ pc = "startup"
    /\ discord_task' = "pending"
    /\ clock' = 0
    /\ pc' = "waiting"
    /\ lastCall' = NoCall
    /\ resp' = NoResp
    /\ UNCHANGED <<managerVars, handleVars, client, client_ready, tokenValid,
                   taskHandle, cancelReq, extPc, reqs>>

\* A wait whose deadline never comes.
Tick_NoDeadline ==
    /\ pc = "waiting"
    /\ clock < Timeout
    /\ clock' = 0
    /\ lastCall' = NoCall
    /\ resp' = NoResp
    /\ UNCHANGED <<managerVars, handleVars, client, client_ready, tokenValid, pc,
                   taskVars, extPc, reqs>>

\* Time passes while lifespan is suspended in wait_for. The event loop runs
\* the callbacks that are ready before it waits for a timer, so no second
\* passes while an on_ready is scheduled.
Tick ==
    /\ pc = "waiting"
    /\ clock < Timeout
    /\ \A h \in Handles : ~hDispatched[h]
    /\ clock' = clock + 1
    /\ lastCall' = NoCall
    /\ resp' = NoResp
    /\ UNCHANGED <<managerVars, handleVars, client, client_ready, tokenValid, pc,
                   taskVars, extPc, reqs>>

\* A lifespan that logs the timeout and goes on to yield.
WaitTimeout_Swallow ==
    /\ pc = "waiting"
    /\ clock = Timeout
    /\ ~client_ready
    /\ Cancel
    /\ pc' = "serving"
    /\ clock' = 0
    /\ lastCall' = NoCall
    /\ resp' = NoResp
    /\ UNCHANGED <<managerVars, handleVars, client, client_ready, tokenValid,
                   discord_task, taskHandle, extPc, reqs>>

\* A lifespan that clears the event once the wait has returned.
WaitReady_ClearsEvent ==
    /\ pc = "waiting"
    /\ client_ready
    /\ client_ready' = FALSE
    /\ pc' = "serving"
    /\ clock' = 0
    /\ lastCall' = NoCall
    /\ resp' = NoResp
    /\ UNCHANGED <<managerVars, handleVars, client, tokenValid, taskVars,
                   extPc, reqs>>

\* Lines 64-65: client_ready.wait() returned before the timeout, whose timer
\* wait_for drops; yield.
WaitReady ==
    /\ pc = "waiting"
    /\ client_ready
    /\ pc' = "serving"
    /\ clock' = 0
    /\ lastCall' = NoCall
    /\ resp' = NoResp
    /\ UNCHANGED <<managerVars, handleVars, client, client_ready, tokenValid,
                   taskVars, extPc, reqs>>

\* Lines 66-69: asyncio.TimeoutError; discord_task.cancel(); raise.
WaitTimeout ==
    /\ pc = "waiting"
    /\ clock = Timeout
    /\ ~client_ready
    /\ Cancel
    /\ pc' = "failed"
    /\ lastCall' = NoCall
    /\ resp' = NoResp
    /\ UNCHANGED <<managerVars, handleVars, client, client_ready, tokenValid, clock,
                   discord_task, taskHandle, extPc, reqs>>

\* Line 75: await DiscordClientManager.close(), up to its await.
ShutdownClose ==
    /\ pc = "serving"
    /\ \E awaits \in BOOLEAN :
        /\ CloseCall(awaits)
        /\ pc' = IF awaits THEN "closing" ELSE "cancel"
    /\ lastCall' = Call("close", None)
    /\ resp' = NoResp
    /\ UNCHANGED <<managerVars, hOnReady, hGuilds, hUser, hDispatched, client, client_ready,
                   tokenValid, clock, taskVars, extPc, reqs>>

\* Line 75: close() resumes and returns.
ShutdownCloseReturn ==
    /\ pc = "closing"
    /\ CloseResume
    /\ pc' = "cancel"
    /\ lastCall' = NoCall
    /\ resp' = NoResp
    /\ UNCHANGED <<nHandles, handleVars, client, client_ready, tokenValid, clock,
                   taskVars, extPc, reqs>>

\* Line 76: discord_task.cancel()
ShutdownCancel ==
    /\ pc = "cancel"
    /\ Cancel
    /\ pc' = "joining"
    /\ lastCall' = NoCall
    /\ resp' = NoResp
    /\ UNCHANGED <<managerVars, handleVars, client, client_ready, tokenValid, clock,
                   discord_task, taskHandle, extPc, reqs>>

\* A join without the `except asyncio.CancelledError`: the cancelled outcome
\* leaves lifespan as an error.
ShutdownJoin_Propagates ==
    /\ pc = "joining"
    /\ discord_task \in {"done", "cancelled"}
    /\ pc' = IF discord_task = "cancelled" THEN "error" ELSE "stopped"
    /\ lastCall' = NoCall
    /\ resp' = NoResp
    /\ UNCHANGED <<managerVars, handleVars, client, client_ready, tokenValid, clock,
                   taskVars, extPc, reqs>>

\* Lines 77-80: await discord_task; CancelledError is passed over.
ShutdownJoin ==
    /\ pc = "joining"
    /\ discord_task \in {"done", "cancelled"}
    /\ pc' = "stopped"
    /\ lastCall' = NoCall
    /\ resp' = NoResp
    /\ UNCHANGED <<managerVars, handleVars, client, client_ready, tokenValid, clock,
                   taskVars, extPc, reqs>>

\* =====================================================================
\* app/main.py run_discord_client and the gateway session it runs
\* =====================================================================

TaskRuns(st) == discord_task = st /\ ~cancelReq

\* Lines 55-56 and discord_client.py 29-30: the task starts running;
\* start() calls get_client and suspends in client.start(token).
TaskStart ==
    /\ TaskRuns("pending")
    /\ CanGetClient
    /\ LET r == get_client(instance, nHandles, hOnReady) IN
        /\ instance' = r.instance
        /\ nHandles' = r.nHandles
        /\ hOnReady' = r.hOnReady
        /\ taskHandle' = r.instance
        /\ lastCall' = Call("start", r.instance)
    /\ discord_task' = "login"
    /\ resp' = NoResp
    /\ UNCHANGED <<hClosed, hReady, hGuilds, hUser, hDispatched, libClose, client,
                   client_ready, tokenValid, pc, clock, cancelReq, extPc, reqs>>

\* client.start raises LoginFailure for a token the platform rejects;
\* lines 57-58 log it and the task ends.
LoginFail ==
    /\ TaskRuns("login")
    /\ ~tokenValid
    /\ discord_task' = "done"
    /\ lastCall' = NoCall
    /\ resp' = NoResp
    /\ UNCHANGED <<managerVars, handleVars, client, client_ready, tokenValid, pc,
                   clock, taskHandle, cancelReq, extPc, reqs>>

\* The token is accepted: the library sets the handle's user, and
\* client.start goes on to hold the session.
LoginOk ==
    /\ TaskRuns("login")
    /\ tokenValid
    /\ discord_task' = "connected"
    /\ hUser' = [hUser EXCEPT ![taskHandle] = TRUE]
    /\ lastCall' = NoCall
    /\ resp' = NoResp
    /\ UNCHANGED <<managerVars, hClosed, hReady, hOnReady, hGuilds, hDispatched,
                   libClose, client, client_ready, tokenValid, pc, clock, taskHandle,
                   cancelReq, extPc, reqs>>

\* The platform sends READY to the open session: the library fills the guild
\* cache, sets the handle's ready event and schedules its on_ready coroutine.
GatewayReady ==
    /\ TaskRuns("connected")
    /\ ~hClosed[taskHandle]
    /\ ~hReady[taskHandle]
    /\ hReady' = [hReady EXCEPT ![taskHandle] = TRUE]
    /\ hGuilds' = [hGuilds EXCEPT ![taskHandle] = BotGuilds]
    /\ hDispatched' = [hDispatched EXCEPT ![taskHandle] = TRUE]
    /\ lastCall' = NoCall
    /\ resp' = NoResp
    /\ UNCHANGED <<managerVars, hClosed, hOnReady, hUser, libClose, client,
                   client_ready, tokenValid, pc, clock, taskVars, extPc, reqs>>

\* A handle that keeps the on_ready get_client registered, which only logs.
on_ready_LogOnly(h) == client_ready' = client_ready

\* The coroutine registered on handle h as on_ready: main.py's (lines 38-42)
\* sets client_ready, discord_client.py's (lines 20-22) only logs.
on_ready(h) == client_ready' = IF hOnReady[h] = "main" THEN TRUE ELSE client_ready

\* The event loop runs a scheduled on_ready.
OnReadyRun(h) ==
    /\ hDispatched[h]
    /\ on_ready(h)
    /\ hDispatched' = [hDispatched EXCEPT ![h] = FALSE]
    /\ lastCall' = NoCall
    /\ resp' = NoResp
    /\ UNCHANGED <<managerVars, hClosed, hReady, hOnReady, hGuilds, hUser, libClose, client,
                   tokenValid, pc, clock, taskVars, extPc, reqs>>

\* The session ends on its own with an error the library does not retry: the
\* library closes the handle and client.start raises; lines 57-58 log it.
SessionFatal ==
    /\ TaskRuns("connected")
    /\ ~hClosed[taskHandle]
    /\ ClientClose(taskHandle)
    /\ discord_task' = "done"
    /\ lastCall' = NoCall
    /\ resp' = NoResp
    /\ UNCHANGED <<managerVars, hOnReady, hGuilds, hUser, hDispatched, libClose, client,
                   client_ready, tokenValid, pc, clock, taskHandle, cancelReq, extPc, reqs>>

\* client.start returns once its handle is closed; the task ends.
StartReturns ==
    /\ TaskRuns("connected")
    /\ hClosed[taskHandle]
    /\ discord_task' = "done"
    /\ lastCall' = NoCall
    /\ resp' = NoResp
    /\ UNCHANGED <<managerVars, handleVars, client, client_ready, tokenValid, pc,
                   clock, taskHandle, cancelReq, extPc, reqs>>

\* A requested cancellation is delivered: CancelledError is no Exception, so
\* line 57 does not catch it and the task ends cancelled.
TaskCancelled ==
    /\ cancelReq
    /\ discord_task \in {"pending", "login", "connected"}
    /\ discord_task' = "cancelled"
    /\ cancelReq' = FALSE
    /\ lastCall' = NoCall
    /\ resp' = NoResp
    /\ UNCHANGED <<managerVars, handleVars, client, client_ready, tokenValid, pc,
                   clock, taskHandle, extPc, reqs>>

\* =====================================================================
\* Other callers of DiscordClientManager's class methods
\* =====================================================================

ExtGetClient ==
    /\ pc # "import"
    /\ extPc = "idle"
    /\ CanGetClient
    /\ LET r == get_client(instance, nHandles, hOnReady) IN
        /\ instance' = r.instance
        /\ nHandles' = r.nHandles
        /\ hOnReady' = r.hOnReady
        /\ lastCall' = Call("get_client", r.instance)
    /\ resp' = NoResp
    /\ UNCHANGED <<hClosed, hReady, hGuilds, hUser, hDispatched, libClose, client,
                   client_ready, tokenValid, pc, clock, taskVars, extPc, reqs>>

ExtClose ==
    /\ pc # "import"
    /\ extPc = "idle"
    /\ \E awaits \in BOOLEAN :
        /\ CloseCall(awaits)
        /\ extPc' = IF awaits THEN "closing" ELSE "idle"
    /\ lastCall' = Call("close", None)
    /\ resp' = NoResp
    /\ UNCHANGED <<managerVars, hOnReady, hGuilds, hUser, hDispatched, client, client_ready,
                   tokenValid, pc, clock, taskVars, reqs>>

ExtCloseReturn ==
    /\ extPc = "closing"
    /\ CloseResume
    /\ extPc' = "idle"
    /\ lastCall' = NoCall
    /\ resp' = NoResp
    /\ UNCHANGED <<nHandles, handleVars, client, client_ready, tokenValid, pc, clock,
                   taskVars, reqs>>

\* =====================================================================
\* app/services.py: get_guild_users
\* =====================================================================

\* Text is a sequence of characters; the characters used are the digits 0..9.
\* str(n) of a non-negative int: its decimal digits, most significant first.
RECURSIVE str(_)
str(n) == IF n < 10 THEN <<n>> ELSE Append(str(n \div 10), n % 10)

\* The k-th member guild.fetch_members yields: ids ascend, as the platform
\* pages them; a member without discriminator has an empty one.
Member(k) ==
    [id |-> 7 * k,
     discriminator |-> IF k % 3 = 0 THEN <<0, 0, 0, 1>> ELSE <<>>,
     bot |-> (k % 2 = 0)]

\* Lines 37-45: the UserInfo built for a member. username, display_name,
\* avatar_url and joined_at are copied field by field like id and are left out.
UserInfo(m) ==
    [id |-> m.id,
     discriminator |-> IF m.discriminator = <<>> THEN <<0, 0, 0, 0>> ELSE m.discriminator,
     is_bot |-> m.bot]

\* A map keyed by the discriminator instead of the id.
UserKey_Discriminator(m) == UserInfo(m).discriminator

\* Line 35: user_id_str = str(member.id)
UserKey(m) == str(m.id)

\* Line 47: users_map[key] = info
Put(map, key, info) ==
    [k \in DOMAIN map \cup {key} |-> IF k = key THEN info ELSE map[k]]

\* A lookup that does not test the guild it got.
GuildLookup_NoCheck(cached) == "found"

\* Lines 27-30: guild = client.get_guild(guild_id); ValueError if there is none.
GuildLookup(cached) == IF cached THEN "found" ELSE "ValueError"

\* Lines 50-55: the GuildUsersResponse of a finished enumeration.
GuildUsersResponse(g, users) ==
    [guild_id |-> g, total_members |-> Cardinality(DOMAIN users), users |-> users]

\* =====================================================================
\* app/main.py: get_guild_users_endpoint
\* =====================================================================

\* Exceptions that reach the handler's except clauses, and Python's
\* isinstance over them: pydantic's ValidationError is a ValueError,
\* discord.Forbidden is a discord.HTTPException.
ExcKinds == {"ValueError", "ValidationError", "Forbidden", "HTTPException", "Other"}
IsInstance(kind, cls) ==
    \/ kind = cls
    \/ cls = "ValueError" /\ kind = "ValidationError"
    \/ cls = "HTTPException" /\ kind = "Forbidden"
    \/ cls = "Exception"

\* Lines 5-15: main.py imports os, asyncio, logging, fastapi, dotenv and its
\* own modules; the name discord is not bound in main.py.
DiscordImported == FALSE

\* Lines 168-191: the except clauses, tried in order. Evaluating the clause
\* `except discord.Forbidden` with discord unbound raises NameError, which
\* leaves the handler; the framework answers an unhandled exception with 500
\* "Internal Server Error".
HandleException(kind) ==
    IF IsInstance(kind, "ValueError")
    THEN [status |-> 404, detail |-> "str(e)"]
    ELSE IF ~DiscordImported
    THEN [status |-> 500, detail |-> "Internal Server Error"]
    ELSE IF IsInstance(kind, "Forbidden")
    THEN [status |-> 403, detail |-> "Bot does not have permission to access this guild"]
    ELSE IF IsInstance(kind, "HTTPException")
    THEN [status |-> 502, detail |-> "Discord API error. Please try again later."]
    ELSE [status |-> 500, detail |-> "An unexpected error occurred"]

Outcome(to, st, det, rr, lk, ex) ==
    [to |-> to, status |-> st, detail |-> det, readyRead |-> rr, lookups |-> lk, exc |-> ex]

\* A handler that tests readiness before the guild id.
Entry_ReadyFirst(g, ready, cached) ==
    IF ~ready
    THEN Outcome("respond", 503, "Discord client is not ready. Please try again later.",
                 TRUE, 0, "none")
    ELSE IF g <= 0
    THEN Outcome("respond", 400, "Guild ID must be a positive integer", TRUE, 0, "none")
    ELSE IF GuildLookup(cached) = "found"
    THEN Outcome("fetch", 0, "", TRUE, 1, "none")
    ELSE LET h == HandleException(GuildLookup(cached)) IN
         Outcome("respond", h.status, h.detail, TRUE, 1, GuildLookup(cached))

\* A handler that looks the guild up before it tests readiness.
Entry_LookupFirst(g, ready, cached) ==
    IF g <= 0
    THEN Outcome("respond", 400, "Guild ID must be a positive integer", FALSE, 0, "none")
    ELSE IF GuildLookup(cached) # "found"
    THEN LET h == HandleException(GuildLookup(cached)) IN
         Outcome("respond", h.status, h.detail, FALSE, 1, GuildLookup(cached))
    ELSE IF ~ready
    THEN Outcome("respond", 503, "Discord client is not ready. Please try again later.",
                 TRUE, 1, "none")
    ELSE Outcome("fetch", 0, "", TRUE, 1, "none")

\* Lines 148-170 and services.py 27-34: the handler up to its first
\* suspension. ready is client.is_ready(), cached is whether
\* client.get_guild(g) finds a guild. It answers, or goes on to enumerate.
Entry(g, ready, cached) ==
    IF g <= 0
    THEN Outcome("respond", 400, "Guild ID must be a positive integer", FALSE, 0, "none")
    ELSE IF ~ready
    THEN Outcome("respond", 503, "Discord client is not ready. Please try again later.",
                 TRUE, 0, "none")
    ELSE IF GuildLookup(cached) = "found"
    THEN Outcome("fetch", 0, "", TRUE, 1, "none")
    ELSE LET h == HandleException(GuildLookup(cached)) IN
         Outcome("respond", h.status, h.detail, TRUE, 1, GuildLookup(cached))

\* An invocation that has reached the enumeration (services.py 33-34). size
\* is the number of members the guild has on the platform, n how many of
\* them fetch_members has yielded, users the map built from them.
Enumeration(g, ready, cached, size) ==
    [g |-> g, connReady |-> ready, connCached |-> cached,
     size |-> size, n |-> 0, users |-> EmptyMap]

\* The invocations suspended in their enumeration.
InFlight == BagToSet(reqs)

\* The HTTP session of handle h still carries requests: the handle is open,
\* or a caller is still waiting in Client.close() for the session to end.
HttpOpen(h) ==
    \/ ~hClosed[h]
    \/ instance = h /\ (pc = "closing" \/ extPc = "closing")

\* A request for guild g arrives and runs to its first suspension.
\* connReady and connCached record the connection's state at that moment.
Request(g) ==
    /\ pc = "serving"
    /\ BagCardinality(reqs) < MaxReq
    /\ LET ready == hReady[client]
           cached == g \in hGuilds[client]
           o == Entry(g, ready, cached) IN
        IF o.to = "fetch"
        THEN /\ \E size \in 0..MaxMembers :
                reqs' = reqs (+) SetToBag({Enumeration(g, ready, cached, size)})
             /\ resp' = NoResp
        ELSE /\ resp' = [endpoint |-> "users", status |-> o.status,
                         detail |-> o.detail, g |-> g,
                         connReady |-> ready, connCached |-> cached,
                         readyRead |-> o.readyRead, lookups |-> o.lookups,
                         fetches |-> 0, exc |-> o.exc, size |-> 0, enumerated |-> 0,
                         closedAtEnd |-> hClosed[client], body |-> NoBody]
             /\ reqs' = reqs
    /\ lastCall' = NoCall
    /\ UNCHANGED <<managerVars, handleVars, client, client_ready, tokenValid, pc,
                   clock, taskVars, extPc>>

\* services.py 34-47: fetch_members gets the next member over the handle's
\* HTTP session and yields it; it is projected and stored under its key.
FetchYield(q) ==
    /\ q \in InFlight
    /\ q.n < q.size
    /\ HttpOpen(client)
    /\ LET m == Member(q.n + 1) IN
        reqs' = (reqs (-) SetToBag({q})) (+)
                SetToBag({[q EXCEPT !.n = @ + 1,
                                    !.users = Put(@, UserKey(m), UserInfo(m))]})
    /\ resp' = NoResp
    /\ lastCall' = NoCall
    /\ UNCHANGED <<managerVars, handleVars, client, client_ready, tokenValid, pc,
                   clock, taskVars, extPc>>

RespondAfterFetch(q, st, det, ex, body) ==
    /\ resp' = [endpoint |-> "users", status |-> st, detail |-> det, g |-> q.g,
                connReady |-> q.connReady, connCached |-> q.connCached,
                readyRead |-> TRUE, lookups |-> 1, fetches |-> 1, exc |-> ex,
                size |-> q.size, enumerated |-> q.n,
                closedAtEnd |-> hClosed[client], body |-> body]
    /\ reqs' = reqs (-) SetToBag({q})

\* A handler that answers a failed enumeration with the members it has got.
FetchFail_ReturnsPartial(q, kind) ==
    /\ q \in InFlight
    /\ RespondAfterFetch(q, 200, "", kind, GuildUsersResponse(q.g, q.users))
    /\ lastCall' = NoCall
    /\ UNCHANGED <<managerVars, handleVars, client, client_ready, tokenValid, pc,
                   clock, taskVars, extPc>>

\* A handler that closes the connection when the enumeration fails.
FetchFail_ClosesClient(q, kind) ==
    /\ q \in InFlight
    /\ LET h == HandleException(kind) IN
        RespondAfterFetch(q, h.status, h.detail, kind, NoBody)
    /\ ClientClose(client)
    /\ lastCall' = NoCall
    /\ UNCHANGED <<managerVars, hOnReady, hGuilds, hUser, hDispatched, libClose, client,
                   client_ready, tokenValid, pc, clock, taskVars, extPc>>

\* services.py 34-45: fetch_members or the projection raises; the handler's
\* except clauses (main.py 168-191) turn it into the response.
FetchFail(q, kind) ==
    /\ q \in InFlight
    /\ LET h == HandleException(kind) IN
        RespondAfterFetch(q, h.status, h.detail, kind, NoBody)
    /\ lastCall' = NoCall
    /\ UNCHANGED <<managerVars, handleVars, client, client_ready, tokenValid, pc,
                   clock, taskVars, extPc>>

\* services.py 49-55 and main.py 166: fetch_members has yielded every member
\* of the guild and ends; 200.
FetchDone(q) ==
    /\ q \in InFlight
    /\ q.n = q.size
    /\ RespondAfterFetch(q, 200, "", "none", GuildUsersResponse(q.g, q.users))
    /\ lastCall' = NoCall
    /\ UNCHANGED <<managerVars, handleVars, client, client_ready, tokenValid, pc,
                   clock, taskVars, extPc>>

\* Lines 92-99: health_check reads client.is_ready() and client.user.
health_check ==
    /\ pc = "serving"
    /\ resp' = [NoResp EXCEPT !.endpoint = "health", !.status = 200,
                              !.readyRead = TRUE, !.connReady = hReady[client],
                              !.detail = IF hUser[client] THEN "str(client.user)"
                                         ELSE "Not connected",
                              !.closedAtEnd = hClosed[client]]
    /\ lastCall' = NoCall
    /\ UNCHANGED <<managerVars, handleVars, client, client_ready, tokenValid, pc,
                   clock, taskVars, extPc, reqs>>

\* Lines 194-202: root answers with constants.
root ==
    /\ pc = "serving"
    /\ resp' = [NoResp EXCEPT !.endpoint = "root", !.status = 200,
                              !.detail = "Mini Discord Gateway API"]
    /\ lastCall' = NoCall
    /\ UNCHANGED <<managerVars, handleVars, client, client_ready, tokenValid, pc,
                   clock, taskVars, extPc, reqs>>

\* =====================================================================
\* The program
\* =====================================================================

Init ==
    /\ instance = None
    /\ nHandles = 0
    /\ hClosed = [h \in Handles |-> FALSE]
    /\ hReady = [h \in Handles |-> FALSE]
    /\ hOnReady = [h \in Handles |-> "none"]
    /\ hGuilds = [h \in Handles |-> {}]
    /\ hUser = [h \in Handles |-> FALSE]
    /\ hDispatched = [h \in Handles |-> FALSE]
    /\ libClose = [h \in Handles |-> 0]
    /\ client = None
    /\ client_ready = FALSE
    /\ tokenValid \in BOOLEAN
    /\ pc = "import"
    /\ clock = 0
    /\ discord_task = "none"
    /\ taskHandle = None
    /\ cancelReq = FALSE
    /\ extPc = "idle"
    /\ lastCall = NoCall
    /\ reqs = EmptyBag
    /\ resp = NoResp

Next ==
    \/ ModuleImport
    \/ LifespanEnter
    \/ Tick
    \/ WaitReady
    \/ WaitTimeout
    \/ ShutdownClose
    \/ ShutdownCloseReturn
    \/ ShutdownCancel
    \/ ShutdownJoin
    \/ TaskStart
    \/ LoginFail
    \/ LoginOk
    \/ GatewayReady
    \/ \E h \in Handles : OnReadyRun(h)
    \/ SessionFatal
    \/ StartReturns
    \/ TaskCancelled
    \/ ExtGetClient
    \/ ExtClose
    \/ ExtCloseReturn
    \/ \E g \in GuildIds : Request(g)
    \/ \E q \in InFlight : FetchYield(q)
    \/ \E q \in InFlight, kind \in ExcKinds \ {"ValueError"} : FetchFail(q, kind)
    \/ \E q \in InFlight : FetchDone(q)
    \/ health_check
    \/ root

Spec == Init /\ [][Next]_vars

\* The steps of lifespan that wait for nothing outside the process; they
\* are taken at different positions, so at most one of them can be taken.
LifespanStep ==
    \/ ModuleImport
    \/ LifespanEnter
    \/ WaitReady
    \/ WaitTimeout
    \/ ShutdownCloseReturn
    \/ ShutdownCancel
    \/ ShutdownJoin

\* The steps that end the task once it has been cancelled or its handle closed.
TaskEnd == TaskCancelled \/ StartReturns

\* The event loop runs every coroutine that can run and fires every timer
\* that is due: the steps of lifespan, a scheduled on_ready, the end of the
\* task and the return of a close() all happen once they can. When the platform answers, when a
\* termination signal or a request arrives and what other callers do is left
\* open.
Fairness ==
    /\ WF_vars(LifespanStep)
    /\ WF_vars(Tick)
    /\ WF_vars(TaskEnd)
    /\ \A h \in Handles : WF_vars(OnReadyRun(h))
    /\ WF_vars(ExtCloseReturn)

FairSpec == Spec /\ Fairness

\* The program on its own: nothing but main.py calls the manager.
ProgNext ==
    \/ ModuleImport
    \/ LifespanEnter
    \/ Tick
    \/ WaitReady
    \/ WaitTimeout
    \/ ShutdownClose
    \/ ShutdownCloseReturn
    \/ ShutdownCancel
    \/ ShutdownJoin
    \/ TaskStart
    \/ LoginFail
    \/ LoginOk
    \/ GatewayReady
    \/ \E h \in Handles : OnReadyRun(h)
    \/ SessionFatal
    \/ StartReturns
    \/ TaskCancelled
    \/ \E g \in GuildIds : Request(g)
    \/ \E q \in InFlight : FetchYield(q)
    \/ \E q \in InFlight, kind \in ExcKinds \ {"ValueError"} : FetchFail(q, kind)
    \/ \E q \in InFlight : FetchDone(q)
    \/ health_check
    \/ root

FairProgSpec == Init /\ [][ProgNext]_vars /\ Fairness

\* =====================================================================
\* Properties
\* =====================================================================

\* Some invocation of the member-list endpoint has run or is running.
Handled == resp.status # 0 \/ reqs # EmptyBag

\* The positions of lifespan at and after its yield.
Yielded == pc \in {"serving", "closing", "cancel", "joining", "stopped"}

\* C1. Startup gate: lifespan reaches its yield, and a request is handled,
\* only with client_ready set; when wait_for times out first, the task is
\* cancelled (or already over), startup has raised and no request is ever
\* handled.
C1_StartupGate ==
    /\ (Yielded \/ Handled) => client_ready
    /\ pc = "failed" =>
        /\ clock = Timeout
        /\ cancelReq \/ discord_task \in {"done", "cancelled"}
        /\ ~Handled

\* C1 witness: a request was answered while lifespan is at its yield.
C1_Witness ==
    /\ pc = "serving"
    /\ resp.endpoint = "users"
    /\ resp.status = 200
    /\ client_ready

\* C2. A request with guild_id <= 0 is answered 400 whatever the connection's
\* state, before is_ready() is read and before any lookup or enumeration.
C2_InvalidGuildId ==
    (resp.endpoint = "users" /\ resp.g <= 0) =>
        /\ resp.status = 400
        /\ ~resp.readyRead
        /\ resp.lookups = 0
        /\ resp.fetches = 0

\* C2 witness: 400 for a non-positive id, given while the client was not
\* ready and its handle closed.
C2_Witness ==
    /\ resp.endpoint = "users"
    /\ resp.status = 400
    /\ resp.g <= 0
    /\ ~resp.connReady
    /\ hClosed[client]

\* C3. A request with guild_id > 0 that finds the client not ready is
\* answered 503 without get_guild and without fetch_members; no enumeration
\* runs for a request that found the client not ready.
C3_NotReady ==
    /\ (resp.status # 0 /\ resp.g > 0 /\ ~resp.connReady) =>
        /\ resp.status = 503
        /\ resp.lookups = 0
        /\ resp.fetches = 0
    /\ \A q \in InFlight : q.connReady

\* C3 witness: 503 for a guild that is in the cache of the not-ready client.
C3_Witness ==
    /\ resp.status = 503
    /\ resp.g > 0
    /\ resp.connCached
    /\ ~resp.connReady

\* C4. A request with guild_id > 0 that finds the client ready and no such
\* guild in its cache is answered 404, and no enumeration is started for it.
C4_GuildNotFound ==
    /\ (resp.status # 0 /\ resp.g > 0 /\ resp.connReady /\ ~resp.connCached) =>
        /\ resp.status = 404
        /\ resp.lookups = 1
        /\ resp.fetches = 0
    /\ \A q \in InFlight : q.connCached

\* C4 witness: 404 from the ValueError of the lookup, client ready.
C4_Witness ==
    /\ resp.status = 404
    /\ resp.exc = "ValueError"
    /\ resp.connReady
    /\ ~resp.connCached

\* The number a text of digits denotes.
RECURSIVE int(_)
int(t) == IF t = <<>> THEN 0 ELSE 10 * int(SubSeq(t, 1, Len(t) - 1)) + t[Len(t)]

\* C5. An enumeration that completes after yielding N members is answered
\* 200 with total_members = N and N keys in users, each key the decimal text
\* of the id stored under it; total_members is the size of users.
C5_MemberCount ==
    /\ (resp.fetches = 1 /\ resp.exc = "none") =>
        /\ resp.status = 200
        /\ resp.connReady /\ resp.connCached
        /\ resp.body.guild_id = resp.g
        /\ resp.body.total_members = resp.enumerated
        /\ Cardinality(DOMAIN resp.body.users) = resp.enumerated
        /\ \A k \in DOMAIN resp.body.users :
            /\ int(k) = resp.body.users[k].id
            /\ Len(k) = 1 \/ k[1] # 0
    /\ resp.status = 200 =>
        resp.body.total_members = Cardinality(DOMAIN resp.body.users)

\* C5 witness: a 200 whose enumeration yielded two members or more.
C5_Witness ==
    /\ resp.status = 200
    /\ resp.enumerated >= 2
    /\ resp.body.total_members = resp.enumerated

\* C6. A failure raised during the enumeration is answered by its kind:
\* discord.Forbidden 403, another discord.HTTPException 502, any other
\* failure 500 with the fixed message. The code does not do this: with the
\* name discord unbound in main.py, each of them ends as the framework's 500.
C6_FailureMapping ==
    (resp.fetches = 1 /\ resp.exc \in {"Forbidden", "HTTPException", "Other"}) =>
        /\ resp.exc = "Forbidden" => resp.status = 403
        /\ resp.exc = "HTTPException" => resp.status = 502
        /\ resp.exc = "Other" =>
            resp.status = 500 /\ resp.detail = "An unexpected error occurred"

\* C7 as claimed: readiness of a handle, as is_ready() and as client_ready,
\* turns false only when a handle newer than it has been constructed.
C7_MonotonicUnlessNewHandle ==
    [][/\ \A h \in Handles : (hReady[h] /\ ~hReady'[h]) => nHandles' > h
       /\ (client_ready /\ ~client_ready') => nHandles' > client]_vars

\* C7 as amended: readiness of a handle, as is_ready() and as client_ready,
\* turns false only when that handle is closed; constructing a new handle
\* changes neither.
C7_MonotonicWhileOpen ==
    [][/\ \A h \in Handles : (hReady[h] /\ ~hReady'[h]) => hClosed'[h]
       /\ (client_ready /\ ~client_ready') => hClosed'[client]
       /\ nHandles' # nHandles => (hReady' = hReady /\ client_ready' = client_ready)]_vars

\* C7 witness: the handle main.py holds was ready and is so no more, after it
\* was closed and with no other handle ever constructed; client_ready is set.
C7_Witness ==
    /\ client # None
    /\ hGuilds[client] # {}
    /\ ~hReady[client]
    /\ hClosed[client]
    /\ nHandles = 1
    /\ client_ready

\* C8. After close() the manager holds no handle and the readiness signal is
\* reset: client_ready is never set while the handle it is set for, main.py's
\* client, is not the manager's handle. The code does not do this: nothing
\* clears client_ready.
C8_ReadyOnlyForLiveHandle == client_ready => instance = client

\* C9. close() called with no handle, or with a handle already closed, makes
\* no Client.close() call, changes nothing of the manager or the handles and
\* returns without suspending.
C9_CloseIdempotent ==
    [][(lastCall'.op = "close" /\ (instance = None \/ hClosed[instance])) =>
        /\ UNCHANGED <<instance, nHandles, handleVars>>
        /\ extPc' = "closing" => extPc = "closing"
        /\ pc' = "closing" => pc = "closing"]_vars

\* C9 witness: lifespan's close() has returned at once, the manager holding
\* a handle that another close() had closed before.
C9_Witness ==
    /\ lastCall.op = "close"
    /\ pc = "cancel"
    /\ instance # None
    /\ hClosed[instance]
    /\ libClose[instance] = 1

\* Handles constructed and not closed.
OpenHandles == {h \in Handles : h <= nHandles /\ ~hClosed[h]}

\* C10. At most one handle is open at a time. A get_client call (alone or
\* inside start) constructs handle nHandles + 1 only when the manager holds
\* none, and otherwise returns the manager's handle and changes neither the
\* manager nor any handle; get_client itself changes nothing of the
\* connection or the task.
C10_SingleHandle ==
    [][/\ Cardinality(OpenHandles') <= 1
       /\ instance' \in 0..nHandles'
       /\ lastCall'.op \in {"get_client", "start"} =>
            /\ lastCall'.ret = instance'
            /\ IF instance # None
               THEN UNCHANGED <<instance, nHandles, handleVars>>
               ELSE nHandles' = nHandles + 1 /\ instance' = nHandles'
       /\ lastCall'.op = "get_client" =>
            UNCHANGED <<hClosed, hReady, hGuilds, hUser, hDispatched, libClose, taskVars>>]_vars

\* C10 witness: a get_client call made after the task's start() returned the
\* handle start() runs, which is the one main.py holds.
C10_Witness ==
    /\ lastCall.op = "get_client"
    /\ discord_task = "connected"
    /\ lastCall.ret = taskHandle
    /\ taskHandle = client
    /\ nHandles = 1

\* C11. With a token the platform rejects, the task ends in LoginFailure
\* before any READY: no handle becomes ready, client_ready is never set,
\* lifespan never reaches its yield and no request is handled; the wait runs
\* out and startup ends in failure.
C11_InvalidToken ==
    /\ [](~tokenValid =>
            /\ ~client_ready
            /\ \A h \in Handles : ~hReady[h] /\ ~hDispatched[h]
            /\ discord_task # "connected"
            /\ ~Yielded
            /\ ~Handled)
    /\ (~tokenValid) ~> (pc = "failed")

\* C11 witness: startup has failed after the task ended in LoginFailure.
C11_Witness ==
    /\ ~tokenValid
    /\ pc = "failed"
    /\ discord_task = "done"
    /\ clock = Timeout
    /\ ~client_ready

\* lifespan is in its shutdown sequence.
ShuttingDown == pc \in {"closing", "cancel", "joining"}

\* C12. Shutdown runs close(), then discord_task.cancel(), then the await
\* of the task, in that order; whatever state the task was in, the sequence
\* ends, with the task over and no cancellation pending, and a cancelled
\* task ends it like a finished one.
C12_Shutdown ==
    /\ [][pc' # pc =>
            /\ pc = "serving" => (pc' \in {"closing", "cancel"} /\ lastCall'.op = "close")
            /\ pc = "closing" => (pc' = "cancel" /\ instance' = None)
            /\ pc = "cancel" =>
                (pc' = "joining" /\ (cancelReq' \/ discord_task \in {"done", "cancelled"}))
            /\ pc = "joining" =>
                (pc' = "stopped" /\ discord_task \in {"done", "cancelled"} /\ ~cancelReq)
            /\ pc' = "stopped" => pc = "joining"]_vars
    /\ ShuttingDown ~> (pc = "stopped")

\* C12 witness: shutdown has ended with the task cancelled while it held the
\* session of a handle that close() had closed.
C12_Witness ==
    /\ pc = "stopped"
    /\ discord_task = "cancelled"
    /\ taskHandle # None
    /\ hClosed[taskHandle]
    /\ ~cancelReq

\* An enumeration in flight can go on only over an open HTTP session; when
\* the session has ended it can only end, with the error answer if it is
\* incomplete.
EndsWithResponse(q) ==
    /\ ENABLED (\E kind \in ExcKinds \ {"ValueError"} : FetchFail(q, kind))
    /\ (~HttpOpen(client) => ~ENABLED FetchYield(q))
    /\ (q.n < q.size => ~ENABLED FetchDone(q))

HandlerStep == reqs' # reqs \/ resp'.status # 0

\* The map get_guild_users builds from the first n members when it runs alone.
RECURSIVE UsersOf(_)
UsersOf(n) ==
    IF n = 0 THEN EmptyMap
    ELSE Put(UsersOf(n - 1), UserKey(Member(n)), UserInfo(Member(n)))

\* The step touches one invocation only: it adds one, ends one, or advances
\* one by one member, and leaves the others as they are.
OneInvocation ==
    \/ reqs' = reqs
    \/ \E q \in BagToSet(reqs') : q.n = 0 /\ reqs' (-) SetToBag({q}) = reqs
    \/ \E q \in InFlight : reqs (-) SetToBag({q}) = reqs'
    \/ \E q \in InFlight :
         reqs' = (reqs (-) SetToBag({q})) (+)
                 SetToBag({[q EXCEPT !.n = @ + 1, !.users = UsersOf(q.n + 1)]})

\* C14. A step of the member-list, health or root handler leaves the
\* manager's handle, every handle's state, main.py's client, client_ready,
\* the task and lifespan as they were; it touches one invocation only, and a
\* 200 of the member-list endpoint carries what the invocation builds when
\* it runs alone, whatever ran in between.
C14_HandlerReadOnly ==
    [][HandlerStep =>
            /\ UNCHANGED <<instance, nHandles, hClosed, hReady, hOnReady, hGuilds, hUser,
                           hDispatched, libClose, client, client_ready, tokenValid,
                           discord_task, taskHandle, cancelReq, pc, extPc, clock>>
            /\ lastCall' = NoCall
            /\ OneInvocation
            /\ (resp'.endpoint = "users" /\ resp'.status = 200) =>
                    resp'.body = GuildUsersResponse(resp'.g, UsersOf(resp'.size))]_vars

\* An invocation has answered 200 while another one is in the middle of its
\* enumeration, the handle being open and the task connected.
C14_Witness ==
    /\ resp.endpoint = "users"
    /\ resp.status = 200
    /\ resp.size > 0
    /\ \E q \in InFlight : 0 < q.n /\ q.n < q.size
    /\ instance = client
    /\ ~hClosed[client]
    /\ client_ready
    /\ discord_task = "connected"

\* C15. A 404 of the member-list endpoint means the guild was not in the
\* connection's cache: the lookup failed and no enumeration began. The code
\* does not do this: a ValueError raised during the enumeration or the
\* projection, pydantic's ValidationError among them, reaches the same
\* except ValueError clause and is answered 404 for a guild that was found.
C15_NotFoundOnlyWhenAbsent ==
    (resp.endpoint = "users" /\ resp.status = 404) =>
        /\ ~resp.connCached
        /\ resp.fetches = 0
        /\ resp.exc = "ValueError"

\* C16. When nothing but main.py calls the manager, the handle start() runs
\* is the handle main.py holds, and from the import on its on_ready is
\* main.py's, not the logging one of get_client; so every on_ready that runs
\* sets client_ready, a set client_ready keeps the wait from timing out, and
\* a connection that becomes ready before the timeout brings lifespan to
\* its yield.
C16_ReadyReachesGate ==
    /\ [](taskHandle # None => taskHandle = client)
    /\ [](pc # "import" => hOnReady[client] = "main" /\ instance \in {None, client})
    /\ [][(\E h \in Handles : hDispatched[h] /\ ~hDispatched'[h]) => client_ready']_vars
    /\ []((pc = "waiting" /\ client_ready) => (ENABLED WaitReady /\ ~ENABLED WaitTimeout))
    /\ (pc = "waiting" /\ clock < Timeout /\ hReady[client]) ~> (pc = "serving")

\* The connection became ready on main.py's handle and lifespan has yielded.
C16_Witness ==
    /\ pc = "serving"
    /\ client_ready
    /\ discord_task = "connected"
    /\ taskHandle = client
    /\ hReady[client]
    /\ hOnReady[client] = "main"
    /\ nHandles = 1

\* C17. A close() that finds the manager's handle already closed leaves
\* _instance as it is, and get_client and start() then return that closed
\* handle and construct none. _instance is cleared only by a close() that
\* found the handle open at its call and has waited for Client.close().
C17_ClosedHandleKept ==
    [][/\ (lastCall'.op = "close" /\ instance # None /\ hClosed[instance]) =>
            /\ instance' = instance
            /\ libClose' = libClose
       /\ (lastCall'.op \in {"get_client", "start"} /\ instance # None /\ hClosed[instance]) =>
            /\ lastCall'.ret = instance
            /\ instance' = instance
            /\ nHandles' = nHandles
            /\ hClosed'[instance]
       /\ (instance # None /\ instance' = None) =>
            /\ pc = "closing" \/ extPc = "closing"
            /\ lastCall'.op # "close"
            /\ libClose[instance] >= 1]_vars

\* The session ended on its own, so no close() closed the handle; the
\* manager still holds it and has just returned it from get_client.
C17_Witness ==
    /\ lastCall.op = "get_client"
    /\ lastCall.ret = instance
    /\ hClosed[instance]
    /\ libClose[instance] = 0
    /\ nHandles = 1


====
